---- MODULE Spec2Model ----
(***************************************************************************)
(* Encrypted Data Vault server: the vault collection of                    *)
(* pkg/restapi/edv/operation/operations.go over an EDV provider, and the   *)
(* in-memory provider (memedvprovider) with its vault registry.            *)
(*                                                                         *)
(* Every backend call (CreateStore, OpenStore, CreateEDVIndex, Get, Put)   *)
(* is one atomic step; a request is a process that walks through the       *)
(* backend calls of its handler.                                           *)
(***************************************************************************)
EXTENDS Integers, Sequences, FiniteSets, TLC

----------------------------------------------------------------------------
(* Bounds *)

NumProcs == 2
\* the success counter of createDataVault saturates here
MaxWins == 2
\* the longest slice of documents a caller hands to UpsertBulk
MaxBatch == 2

Procs == 1..NumProcs

----------------------------------------------------------------------------
(* Errors.  An error is the chain of its messages, outermost first; the    *)
(* last element is the sentinel.  nil is the empty chain.                  *)

ErrNil == <<>>
ErrDuplicateStore == <<"ErrDuplicateStore">>
ErrStoreNotFound == <<"ErrStoreNotFound">>
ErrValueNotFound == <<"ErrValueNotFound">>
ErrDuplicateVault == <<"ErrDuplicateVault">>
ErrVaultNotFound == <<"ErrVaultNotFound">>
ErrDuplicateDocument == <<"ErrDuplicateDocument">>
ErrDocumentNotFound == <<"ErrDocumentNotFound">>
ErrNotBase58Encoded == <<"ErrNotBase58Encoded">>
ErrNot128BitValue == <<"ErrNot128BitValue">>
ErrIndexingNotSupported == <<"ErrIndexingNotSupported">>
ErrQueryingNotSupported == <<"ErrQueryingNotSupported">>
\* unexpected errors of a backend other than the in-memory one, one per call
ErrCreateStoreFailed == <<"ErrCreateStoreFailed">>
ErrOpenStoreFailed == <<"ErrOpenStoreFailed">>
ErrCreateIndexFailed == <<"ErrCreateIndexFailed">>
ErrGetFailed == <<"ErrGetFailed">>
ErrPutFailed == <<"ErrPutFailed">>
ErrQueryFailed == <<"ErrQueryFailed">>

\* fmt.Errorf(msg, err), msg wrapping err (a %w verb, as in part_000:22)
Errorf(msg, e) == <<msg>> \o e

RECURSIVE ErrorsIs(_, _)
\* errors.Is(e, target)
ErrorsIs(e, target) ==
    IF e = target THEN TRUE
    ELSE IF Len(e) <= 1 THEN FALSE
    ELSE ErrorsIs(Tail(e), target)

----------------------------------------------------------------------------
(* Document ids.  An id is a string over the base58 alphabet, written as   *)
(* the sequence of its characters' alphabet indexes (0 is the character    *)
(* '1'); NotB58 stands for a character outside the alphabet.               *)

Radix == 58
NotB58 == Radix
ByteBase == 256
IdByteLen == 16

Repeat(x, n) == [i \in 1..n |-> x]

\* "1111111111111111": sixteen zero bytes
IdZero16 == Repeat(0, 16)
\* "2" followed by twenty-one "1": the number 58^21, sixteen bytes long
IdPow21 == <<1>> \o Repeat(0, 21)
\* fifteen "1": fifteen zero bytes
IdShort15 == Repeat(0, 15)
\* "20": the character '0' is not in the alphabet
IdNotB58 == <<1, NotB58>>
\* the empty string
IdEmpty == <<>>

ValidDocIDs == {IdZero16, IdPow21}
DocIDs == ValidDocIDs \cup {IdShort15, IdNotB58, IdEmpty}
\* the ids clients read: the ones that can be stored, and one that cannot
ReadDocIDs == ValidDocIDs \cup {IdShort15}

RECURSIVE MulAdd(_, _, _)
\* n * m + carry, n little-endian in base ByteBase
MulAdd(n, m, carry) ==
    IF n = <<>>
    THEN IF carry = 0 THEN <<>>
         ELSE <<carry % ByteBase>> \o MulAdd(<<>>, m, carry \div ByteBase)
    ELSE LET t == Head(n) * m + carry
         IN  <<t % ByteBase>> \o MulAdd(Tail(n), m, t \div ByteBase)

RECURSIVE BigFromDigits(_, _)
\* the number the digits denote, little-endian bytes, no leading zero byte
BigFromDigits(digits, acc) ==
    IF digits = <<>> THEN acc
    ELSE BigFromDigits(Tail(digits), MulAdd(acc, Radix, Head(digits)))

RECURSIVE NumZeros(_)
NumZeros(digits) ==
    IF digits = <<>> \/ Head(digits) # 0 THEN 0 ELSE 1 + NumZeros(Tail(digits))

\* base58.Decode: the empty slice for a character outside the alphabet, else
\* one zero byte per leading '1' followed by the big-endian bytes of the number
Base58Decode(id) ==
    IF \E i \in 1..Len(id) : id[i] >= Radix THEN <<>>
    ELSE LET le == BigFromDigits(id, <<>>)
         IN  Repeat(0, NumZeros(id)) \o [i \in 1..Len(le) |-> le[Len(le) + 1 - i]]

checkIfBase58Encoded128BitValue(id) ==
    LET decodedBytes == Base58Decode(id)
    IN  IF Len(decodedBytes) = 0 THEN ErrNotBase58Encoded
        ELSE IF Len(decodedBytes) # IdByteLen THEN ErrNot128BitValue
        ELSE ErrNil

----------------------------------------------------------------------------
(* Documents and their JSON form.  A JSON text is the sequence of its      *)
(* tokens: a member [k, v], or white space (k = " ").                      *)

Payloads == {<<1>>, <<2>>}

NoDocument == [id |-> <<>>, jwe |-> <<>>]
White == [k |-> " ", v |-> <<>>]
Garbage == [k |-> "}", v |-> <<>>]
NoBytes == <<>>

\* the request bodies a client sends for a document with this id and payload
CompactBody(id, jwe) == <<[k |-> "id", v |-> id], [k |-> "jwe", v |-> jwe]>>
IndentedBody(id, jwe) == <<White, [k |-> "id", v |-> id], White, [k |-> "jwe", v |-> jwe]>>
MalformedBody == <<Garbage>>

\* the bodies clients send: every kind of id, two payloads for one id, and one
\* body that is not in the compact form
SomePayload == CHOOSE jwe \in Payloads : TRUE
CompactBodies ==
    {CompactBody(IdZero16, jwe) : jwe \in Payloads}
Bodies ==
    CompactBodies
      \cup {CompactBody(id, SomePayload) : id \in DocIDs}
      \cup {IndentedBody(IdZero16, SomePayload), MalformedBody}

RECURSIVE DecodeMembers(_, _)
DecodeMembers(body, doc) ==
    IF body = <<>> THEN doc
    ELSE LET t == Head(body)
         IN  DecodeMembers(Tail(body),
                 IF t.k = "id" THEN [doc EXCEPT !.id = t.v]
                 ELSE IF t.k = "jwe" THEN [doc EXCEPT !.jwe = t.v]
                 ELSE doc)

\* json.NewDecoder(body).Decode(&document): white space is skipped, a member
\* sets its field, a field without a member keeps its zero value
JSONDecode(body) ==
    IF \E i \in 1..Len(body) : body[i] = Garbage
    THEN [err |-> <<"SyntaxError">>, document |-> NoDocument]
    ELSE [err |-> ErrNil, document |-> DecodeMembers(body, NoDocument)]

\* json.Marshal(document): the members in field order, no white space
JSONMarshal(document) == CompactBody(document.id, document.jwe)

----------------------------------------------------------------------------
(* State *)

VaultIDs == {"v1", "v2"}

VARIABLES
    provider,   \* VaultCollection.provider: which EDVProvider backs the collection
    stores,     \* the provider's stores: name -> (document id -> bytes)
    pc,         \* where each request is in its handler
    op,         \* the request: handler, vault id, body, decoded document, document id
    err,        \* the error the vault collection returned to the handler
    out,        \* the bytes readDocument returned
    calls,      \* the backend calls the request made so far, with their results
    pre,        \* the stores when the current request began (one request at a time)
    wins,       \* per vault id, how many createDataVault calls returned nil
    rivals,     \* per request, the pending requests for the same target that ran while it ran
    serial,     \* whether the server handles one request at a time
    submitted,  \* per (vault id, document id), the body of the last created document
    registry,   \* the core store of the MemEDVStore that keeps the vault registry
    preRegistry \* the registry when the current request began (one request at a time)

vars == <<provider, stores, pc, op, err, out, calls, pre, wins, rivals, serial, submitted,
         registry, preRegistry>>

EmptyStore == [k \in {} |-> NoBytes]
NoConfig == [referenceID |-> "", payload |-> ""]
\* a []models.EncryptedDocument: the nil slice, or a slice with these items
NilDocuments == [isNil |-> TRUE, items |-> <<>>]
Slice(items) == [isNil |-> FALSE, items |-> items]
NoOp == [name |-> "", vaultID |-> "", body |-> <<>>, document |-> NoDocument, docID |-> <<>>,
         config |-> NoConfig, documents |-> NilDocuments]

Active(p) == pc[p] \notin {"idle", "done"}
AllIdle == \A p \in Procs : pc[p] = "idle"

----------------------------------------------------------------------------
(* The provider.  Each operator gives the set of outcomes of one backend   *)
(* call in the current state: the error, and what the call leaves behind.  *)

ProviderKinds == {"mem", "other"}

\* a CreateStore that empties the store it finds
MemCreateStoreTruncating(name) ==
    IF name \in DOMAIN stores
    THEN [err |-> ErrDuplicateStore, stores |-> [stores EXCEPT ![name] = EmptyStore]]
    ELSE [err |-> ErrNil,
          stores |-> [n \in DOMAIN stores \cup {name} |->
                         IF n = name THEN EmptyStore ELSE stores[n]]]

\* MemEDVProvider.CreateStore: create-if-absent on the core memstore provider
MemCreateStore(name) ==
    IF name \in DOMAIN stores
    THEN [err |-> ErrDuplicateStore, stores |-> stores]
    ELSE [err |-> ErrNil,
          stores |-> [n \in DOMAIN stores \cup {name} |->
                         IF n = name THEN EmptyStore ELSE stores[n]]]

\* MemEDVProvider.OpenStore
MemOpenStore(name) ==
    IF name \in DOMAIN stores THEN ErrNil ELSE ErrStoreNotFound

\* MemEDVStore.CreateEDVIndex
MemCreateEDVIndex == ErrIndexingNotSupported

\* MemEDVStore.Get on the store called name
MemGet(name, k) ==
    IF k \in DOMAIN stores[name]
    THEN [err |-> ErrNil, bytes |-> stores[name][k]]
    ELSE [err |-> ErrValueNotFound, bytes |-> NoBytes]

\* a Put that loses the payload of the document
MemPutWithoutPayload(name, document) ==
    LET documentBytes == JSONMarshal([document EXCEPT !.jwe = <<>>])
    IN  [err |-> ErrNil,
         stores |-> [stores EXCEPT ![name] =
                        [k \in DOMAIN @ \cup {document.id} |->
                            IF k = document.id THEN documentBytes ELSE @[k]]]]

\* a Put that writes the document into every store
MemPutEveryStore(name, document) ==
    LET documentBytes == JSONMarshal(document)
    IN  [err |-> ErrNil,
         stores |-> [n \in DOMAIN stores |->
                        [k \in DOMAIN stores[n] \cup {document.id} |->
                            IF k = document.id THEN documentBytes ELSE stores[n][k]]]]

\* MemEDVStore.Put on the store called name
MemPut(name, document) ==
    LET documentBytes == JSONMarshal(document)
    IN  [err |-> ErrNil,
         stores |-> [stores EXCEPT ![name] =
                        [k \in DOMAIN @ \cup {document.id} |->
                            IF k = document.id THEN documentBytes ELSE @[k]]]]

\* an Update that wants the document to be there
MemUpdateOnlyPresent(name, newDoc) ==
    IF newDoc.id \in DOMAIN stores[name] THEN MemPut(name, newDoc)
    ELSE [err |-> ErrValueNotFound, stores |-> stores]

\* MemEDVStore.Update on the store called name
MemUpdate(name, newDoc) == MemPut(name, newDoc)

\* a Delete that removes nothing
MemDeleteNothing(name, docID) == [err |-> ErrNil, stores |-> stores]

\* MemEDVStore.Delete on the store called name: the core store forgets the key,
\* whether it held it or not
MemDelete(name, docID) ==
    [err |-> ErrNil,
     stores |-> [stores EXCEPT ![name] = [k \in DOMAIN @ \ {docID} |-> @[k]]]]

\* the nil slice Query returns beside an error
NoIDs == {}

\* a Query that finds nothing and reports no error
MemQueryEmptyResult == [err |-> ErrNil, ids |-> NoIDs]

\* MemEDVStore.Query
MemQuery == [err |-> ErrQueryingNotSupported, ids |-> NoIDs]

\* EDVProvider.CreateStore: another backend may also fail with an error of its own
CreateStore(name) ==
    {MemCreateStore(name)}
      \cup IF provider = "mem" THEN {}
           ELSE {[err |-> ErrCreateStoreFailed, stores |-> stores]}

OpenStore(name) ==
    {MemOpenStore(name)}
      \cup IF provider = "mem" THEN {} ELSE {ErrOpenStoreFailed}

\* EDVStore.CreateEDVIndex: another backend creates the index, or fails
CreateEDVIndex ==
    IF provider = "mem" THEN {MemCreateEDVIndex}
    ELSE {ErrNil, ErrIndexingNotSupported, ErrCreateIndexFailed}

Get(name, k) ==
    {MemGet(name, k)}
      \cup IF provider = "mem" THEN {}
           ELSE {[err |-> ErrGetFailed, bytes |-> NoBytes]}

Put(name, document) ==
    {MemPut(name, document)}
      \cup IF provider = "mem" THEN {}
           ELSE {[err |-> ErrPutFailed, stores |-> stores]}

\* EDVStore.Query: another backend answers with ids of the store (none, or all
\* of them), or fails
Query(name) ==
    IF provider = "mem" THEN {MemQuery}
    ELSE {[err |-> ErrNil, ids |-> ids] : ids \in {NoIDs, DOMAIN stores[name]}}
           \cup {[err |-> ErrQueryFailed, ids |-> NoIDs]}

----------------------------------------------------------------------------
(* Requests *)

Called(p, call, e) == calls' = [calls EXCEPT ![p] = Append(@, [call |-> call, err |-> e])]

Goto(p, label) ==
    /\ pc' = [pc EXCEPT ![p] = label]
    /\ UNCHANGED <<err, out>>

Return(p, e, bytes) ==
    /\ pc' = [pc EXCEPT ![p] = "done"]
    /\ err' = [err EXCEPT ![p] = e]
    /\ out' = [out EXCEPT ![p] = bytes]

\* two requests that create the same document in the same vault, or that
\* register the same reference id
SameTarget(a, b) ==
    \/ /\ a.name = "createDocument"
       /\ b.name = "createDocument"
       /\ a.vaultID = b.vaultID
       /\ a.document.id = b.document.id
    \/ /\ a.name = "StoreDataVaultConfiguration"
       /\ b.name = "StoreDataVaultConfiguration"
       /\ a.config.referenceID = b.config.referenceID

\* a request arrives; label is where its handler stands after decoding it
Begin(p, request, label, e) ==
    /\ pc[p] = "idle"
    /\ serial => AllIdle
    /\ pc' = [pc EXCEPT ![p] = label]
    /\ op' = [op EXCEPT ![p] = request]
    /\ err' = [err EXCEPT ![p] = e]
    /\ pre' = IF serial THEN stores ELSE pre
    /\ preRegistry' = IF serial THEN registry ELSE preRegistry
    /\ rivals' = [q \in Procs |->
                    IF q = p THEN {r \in Procs : Active(r) /\ SameTarget(op[r], request)}
                    ELSE IF Active(q) /\ SameTarget(op[q], request) THEN rivals[q] \cup {p}
                    ELSE rivals[q]]
    /\ UNCHANGED <<provider, stores, out, calls, wins, serial, submitted, registry>>

ErrBlankReferenceID == <<"referenceId can't be blank">>

\* a createDataVaultHandler that does not look at the reference id
createDataVaultHandlerUnchecked(p) ==
    \E referenceID \in VaultIDs \cup {""} :
        Begin(p, [NoOp EXCEPT !.name = "createDataVault", !.vaultID = referenceID],
              "cdv_CreateStore", ErrNil)

\* createDataVaultHandler up to its call of createDataVault
createDataVaultHandler(p) ==
    \E referenceID \in VaultIDs \cup {""} :
        IF referenceID = ""
        THEN Begin(p, [NoOp EXCEPT !.name = "createDataVault"], "done", ErrBlankReferenceID)
        ELSE Begin(p, [NoOp EXCEPT !.name = "createDataVault", !.vaultID = referenceID],
                   "cdv_CreateStore", ErrNil)

Won(vaultID) ==
    wins' = [wins EXCEPT ![vaultID] = IF @ < MaxWins THEN @ + 1 ELSE @]

\* a createDataVault that goes on after DuplicateStore
cdvCreateStoreKeepsGoing(p) ==
    /\ pc[p] = "cdv_CreateStore"
    /\ \E r \in CreateStore(op[p].vaultID) :
        /\ stores' = r.stores
        /\ Called(p, "CreateStore", r.err)
        /\ Goto(p, "cdv_OpenStore")
    /\ UNCHANGED <<provider, op, pre, wins, rivals, serial, submitted, registry, preRegistry>>

\* createDataVault: vc.provider.CreateStore(vaultID)
cdvCreateStore(p) ==
    /\ pc[p] = "cdv_CreateStore"
    /\ \E r \in CreateStore(op[p].vaultID) :
        /\ stores' = r.stores
        /\ Called(p, "CreateStore", r.err)
        /\ IF r.err = ErrDuplicateStore
           THEN Return(p, ErrDuplicateVault, NoBytes)
           ELSE Goto(p, "cdv_OpenStore")
    /\ UNCHANGED <<provider, op, pre, wins, rivals, serial, submitted, registry, preRegistry>>

\* createDataVault: vc.provider.OpenStore(vaultID)
cdvOpenStore(p) ==
    /\ pc[p] = "cdv_OpenStore"
    /\ \E e \in OpenStore(op[p].vaultID) :
        /\ Called(p, "OpenStore", e)
        /\ IF e # ErrNil
           THEN Return(p, e, NoBytes)
           ELSE Goto(p, "cdv_CreateEDVIndex")
    /\ UNCHANGED <<provider, stores, op, pre, wins, rivals, serial, submitted, registry, preRegistry>>

\* a createDataVault for which IndexingNotSupported is fatal
cdvCreateEDVIndexStrict(p) ==
    /\ pc[p] = "cdv_CreateEDVIndex"
    /\ \E e \in CreateEDVIndex :
        /\ Called(p, "CreateEDVIndex", e)
        /\ IF e # ErrNil
           THEN Return(p, e, NoBytes) /\ UNCHANGED wins
           ELSE Return(p, ErrNil, NoBytes) /\ Won(op[p].vaultID)
    /\ UNCHANGED <<provider, stores, op, pre, rivals, serial, submitted, registry, preRegistry>>

\* createDataVault: store.CreateEDVIndex()
cdvCreateEDVIndex(p) ==
    /\ pc[p] = "cdv_CreateEDVIndex"
    /\ \E e \in CreateEDVIndex :
        /\ Called(p, "CreateEDVIndex", e)
        /\ IF e # ErrNil /\ e # ErrIndexingNotSupported
           THEN Return(p, e, NoBytes) /\ UNCHANGED wins
           ELSE Return(p, ErrNil, NoBytes) /\ Won(op[p].vaultID)
    /\ UNCHANGED <<provider, stores, op, pre, rivals, serial, submitted, registry, preRegistry>>

createDataVault(p) == cdvCreateStore(p) \/ cdvOpenStore(p) \/ cdvCreateEDVIndex(p)

\* createDocumentHandler up to its call of createDocument.  Concurrent requests
\* all carry the same valid id, with either payload: the requests that can
\* collide; requests served one at a time carry every kind of body.
createDocumentHandler(p) ==
    \E vaultID \in VaultIDs, body \in (IF serial THEN Bodies ELSE CompactBodies) :
        LET d == JSONDecode(body)
            request == [NoOp EXCEPT !.name = "createDocument", !.vaultID = vaultID,
                                    !.body = body, !.document = d.document]
        IN  IF d.err # ErrNil
            THEN Begin(p, request, "done", d.err)
            ELSE Begin(p, request, "cd_OpenStore", ErrNil)

\* a createDocument that checks the id before it looks at the result of OpenStore
cdOpenStoreValidatingFirst(p) ==
    /\ pc[p] = "cd_OpenStore"
    /\ \E e \in OpenStore(op[p].vaultID) :
        /\ Called(p, "OpenStore", e)
        /\ LET encodingErr == checkIfBase58Encoded128BitValue(op[p].document.id)
           IN  IF encodingErr # ErrNil
               THEN Return(p, encodingErr, NoBytes)
               ELSE IF e # ErrNil
               THEN Return(p, IF e = ErrStoreNotFound THEN ErrVaultNotFound ELSE e, NoBytes)
               ELSE Goto(p, "cd_Get")
    /\ UNCHANGED <<provider, stores, op, pre, wins, rivals, serial, submitted, registry, preRegistry>>

\* createDocument: vc.provider.OpenStore(vaultID), then checkIfBase58Encoded128BitValue
cdOpenStore(p) ==
    /\ pc[p] = "cd_OpenStore"
    /\ \E e \in OpenStore(op[p].vaultID) :
        /\ Called(p, "OpenStore", e)
        /\ IF e # ErrNil
           THEN Return(p, IF e = ErrStoreNotFound THEN ErrVaultNotFound ELSE e, NoBytes)
           ELSE LET encodingErr == checkIfBase58Encoded128BitValue(op[p].document.id)
                IN  IF encodingErr # ErrNil
                    THEN Return(p, encodingErr, NoBytes)
                    ELSE Goto(p, "cd_Get")
    /\ UNCHANGED <<provider, stores, op, pre, wins, rivals, serial, submitted, registry, preRegistry>>

\* a createDocument that does not look for the document first
cdGetNoDuplicateCheck(p) ==
    /\ pc[p] = "cd_Get"
    /\ \E r \in Get(op[p].vaultID, op[p].document.id) :
        /\ Called(p, "Get", r.err)
        /\ IF r.err # ErrNil /\ r.err # ErrValueNotFound
           THEN Return(p, r.err, NoBytes)
           ELSE Goto(p, "cd_Put")
    /\ UNCHANGED <<provider, stores, op, pre, wins, rivals, serial, submitted, registry, preRegistry>>

\* createDocument: store.Get(document.ID)
cdGet(p) ==
    /\ pc[p] = "cd_Get"
    /\ \E r \in Get(op[p].vaultID, op[p].document.id) :
        /\ Called(p, "Get", r.err)
        /\ IF r.err = ErrNil
           THEN Return(p, ErrDuplicateDocument, NoBytes)
           ELSE IF r.err # ErrValueNotFound
           THEN Return(p, r.err, NoBytes)
           ELSE Goto(p, "cd_Put")
    /\ UNCHANGED <<provider, stores, op, pre, wins, rivals, serial, submitted, registry, preRegistry>>

\* createDocument: store.Put(document)
cdPut(p) ==
    /\ pc[p] = "cd_Put"
    /\ \E r \in Put(op[p].vaultID, op[p].document) :
        /\ stores' = r.stores
        /\ Called(p, "Put", r.err)
        /\ Return(p, r.err, NoBytes)
        /\ submitted' =
             IF r.err # ErrNil THEN submitted
             ELSE LET at == <<op[p].vaultID, op[p].document.id>>
                  IN  [x \in DOMAIN submitted \cup {at} |->
                          IF x = at THEN op[p].body ELSE submitted[x]]
    /\ UNCHANGED <<provider, op, pre, wins, rivals, serial, registry, preRegistry>>

createDocument(p) == cdOpenStore(p) \/ cdGet(p) \/ cdPut(p)

\* readDocumentHandler up to its call of readDocument.  Concurrent requests read
\* the id that concurrent requests create.
readDocumentHandler(p) ==
    \E vaultID \in VaultIDs, docID \in (IF serial THEN ReadDocIDs ELSE {IdZero16}) :
        Begin(p, [NoOp EXCEPT !.name = "readDocument", !.vaultID = vaultID, !.docID = docID],
              "rd_OpenStore", ErrNil)

\* a readDocument that returns the error of OpenStore as it is
rdOpenStoreUntranslated(p) ==
    /\ pc[p] = "rd_OpenStore"
    /\ \E e \in OpenStore(op[p].vaultID) :
        /\ Called(p, "OpenStore", e)
        /\ IF e # ErrNil
           THEN Return(p, e, NoBytes)
           ELSE Goto(p, "rd_Get")
    /\ UNCHANGED <<provider, stores, op, pre, wins, rivals, serial, submitted, registry, preRegistry>>

\* readDocument: vc.provider.OpenStore(vaultID)
rdOpenStore(p) ==
    /\ pc[p] = "rd_OpenStore"
    /\ \E e \in OpenStore(op[p].vaultID) :
        /\ Called(p, "OpenStore", e)
        /\ IF e # ErrNil
           THEN Return(p, IF e = ErrStoreNotFound THEN ErrVaultNotFound ELSE e, NoBytes)
           ELSE Goto(p, "rd_Get")
    /\ UNCHANGED <<provider, stores, op, pre, wins, rivals, serial, submitted, registry, preRegistry>>

\* readDocument: store.Get(docID)
rdGet(p) ==
    /\ pc[p] = "rd_Get"
    /\ \E r \in Get(op[p].vaultID, op[p].docID) :
        /\ Called(p, "Get", r.err)
        /\ IF r.err # ErrNil
           THEN Return(p, IF r.err = ErrValueNotFound THEN ErrDocumentNotFound ELSE r.err,
                       NoBytes)
           ELSE Return(p, ErrNil, r.bytes)
    /\ UNCHANGED <<provider, stores, op, pre, wins, rivals, serial, submitted, registry, preRegistry>>

readDocument(p) == rdOpenStore(p) \/ rdGet(p)

\* the bodies of query requests: a query, and a text that is not JSON
QueryBody == <<[k |-> "name", v |-> <<1>>], [k |-> "value", v |-> <<1>>]>>
QueryBodies == {QueryBody, MalformedBody}

\* queryVaultHandler up to its call of queryVault
queryVaultHandler(p) ==
    \E vaultID \in VaultIDs, body \in QueryBodies :
        LET d == JSONDecode(body)
            request == [NoOp EXCEPT !.name = "queryVault", !.vaultID = vaultID,
                                    !.body = body]
        IN  IF d.err # ErrNil
            THEN Begin(p, request, "done", d.err)
            ELSE Begin(p, request, "qv_OpenStore", ErrNil)

\* queryVault: vc.provider.OpenStore(vaultID)
qvOpenStore(p) ==
    /\ pc[p] = "qv_OpenStore"
    /\ \E e \in OpenStore(op[p].vaultID) :
        /\ Called(p, "OpenStore", e)
        /\ IF e # ErrNil
           THEN Return(p, IF e = ErrStoreNotFound THEN ErrVaultNotFound ELSE e, NoIDs)
           ELSE Goto(p, "qv_Query")
    /\ UNCHANGED <<provider, stores, op, pre, wins, rivals, serial, submitted, registry, preRegistry>>

\* queryVault: store.Query(query)
qvQuery(p) ==
    /\ pc[p] = "qv_Query"
    /\ \E r \in Query(op[p].vaultID) :
        /\ calls' = [calls EXCEPT ![p] =
                        Append(@, [call |-> "Query", err |-> r.err, ids |-> r.ids])]
        /\ Return(p, r.err, r.ids)
    /\ UNCHANGED <<provider, stores, op, pre, wins, rivals, serial, submitted, registry, preRegistry>>

queryVault(p) == qvOpenStore(p) \/ qvQuery(p)

StatusOK == 200
StatusCreated == 201
StatusBadRequest == 400
StatusNotFound == 404
StatusConflict == 409

\* createDataVaultHandler: the status it writes for the error it has
createDataVaultStatus(e) ==
    IF e = ErrNil THEN StatusCreated
    ELSE IF e = ErrDuplicateVault THEN StatusConflict
    ELSE StatusBadRequest

\* createDocumentHandler
createDocumentStatus(e) ==
    IF e = ErrNil THEN StatusCreated
    ELSE IF e = ErrDuplicateDocument THEN StatusConflict
    ELSE StatusBadRequest

\* readDocumentHandler
readDocumentStatus(e) ==
    IF e = ErrNil THEN StatusOK
    ELSE IF e = ErrDocumentNotFound \/ e = ErrVaultNotFound THEN StatusNotFound
    ELSE StatusBadRequest

\* queryVaultHandler
queryVaultStatus(e) ==
    IF e = ErrNil THEN StatusOK ELSE StatusBadRequest

\* the status of the response of a finished request
WriteHeader(p) ==
    CASE op[p].name = "createDataVault" -> createDataVaultStatus(err[p])
      [] op[p].name = "createDocument" -> createDocumentStatus(err[p])
      [] op[p].name = "readDocument" -> readDocumentStatus(err[p])
      [] op[p].name = "queryVault" -> queryVaultStatus(err[p])

\* the handler writes its response and the request is over
Respond(p) ==
    /\ pc[p] = "done"
    /\ pc' = [pc EXCEPT ![p] = "idle"]
    /\ op' = [op EXCEPT ![p] = NoOp]
    /\ err' = [err EXCEPT ![p] = ErrNil]
    /\ out' = [out EXCEPT ![p] = NoBytes]
    /\ calls' = [calls EXCEPT ![p] = <<>>]
    /\ rivals' = [q \in Procs |-> IF q = p THEN {} ELSE rivals[q] \ {p}]
    /\ pre' = IF serial THEN stores ELSE pre
    /\ preRegistry' = IF serial THEN registry ELSE preRegistry
    /\ UNCHANGED <<provider, stores, wins, serial, submitted, registry>>

----------------------------------------------------------------------------
(* Calls on a store handle.  A caller that opened the store of a vault      *)
(* calls a method of MemEDVStore.  A document the store no longer holds as  *)
(* createDocument left it has no submitted body any more.                   *)

\* submitted without the body of this document
Forget(vaultID, docID) ==
    [x \in DOMAIN submitted \ {<<vaultID, docID>>} |-> submitted[x]]

StoreDocIDs == ValidDocIDs
\* the documents callers hand over: two that share an id, and one with another id
StoreDocs ==
    {[id |-> IdZero16, jwe |-> jwe] : jwe \in Payloads}
      \cup {[id |-> IdPow21, jwe |-> SomePayload]}

RECURSIVE SeqsUpTo(_, _)
\* the sequences over S of length at most n
SeqsUpTo(S, n) ==
    IF n = 0 THEN {<<>>}
    ELSE LET shorter == SeqsUpTo(S, n - 1)
         IN  shorter \cup {Append(t, x) : t \in shorter, x \in S}

Batches == {NilDocuments} \cup {Slice(items) : items \in SeqsUpTo(StoreDocs, MaxBatch)}

ErrDocumentsNil == <<"documents array cannot be nil">>

\* a caller of Put, Update, Delete or Get on the store of an existing vault
StoreCall(p, name, document, docID) ==
    \E vaultID \in DOMAIN stores :
        Begin(p, [NoOp EXCEPT !.name = name, !.vaultID = vaultID, !.document = document,
                              !.docID = docID],
              name, ErrNil)

beginPut(p) == \E document \in StoreDocs : StoreCall(p, "Put", document, document.id)
beginUpdate(p) == \E newDoc \in StoreDocs : StoreCall(p, "Update", newDoc, newDoc.id)
beginDelete(p) == \E docID \in StoreDocIDs : StoreCall(p, "Delete", NoDocument, docID)
beginGet(p) == \E k \in StoreDocIDs : StoreCall(p, "Get", NoDocument, k)

\* MemEDVStore.Put
stPut(p) ==
    /\ pc[p] = "Put"
    /\ LET r == MemPut(op[p].vaultID, op[p].document)
       IN  /\ stores' = r.stores
           /\ Called(p, "Put", r.err)
           /\ Return(p, r.err, NoBytes)
    /\ submitted' = Forget(op[p].vaultID, op[p].document.id)
    /\ UNCHANGED <<provider, op, pre, wins, rivals, serial, registry, preRegistry>>

\* MemEDVStore.Update
stUpdate(p) ==
    /\ pc[p] = "Update"
    /\ LET r == MemUpdate(op[p].vaultID, op[p].document)
       IN  /\ stores' = r.stores
           /\ Called(p, "Put", r.err)
           /\ Return(p, r.err, NoBytes)
    /\ submitted' = Forget(op[p].vaultID, op[p].document.id)
    /\ UNCHANGED <<provider, op, pre, wins, rivals, serial, registry, preRegistry>>

\* MemEDVStore.Delete
stDelete(p) ==
    /\ pc[p] = "Delete"
    /\ LET r == MemDelete(op[p].vaultID, op[p].docID)
       IN  /\ stores' = r.stores
           /\ Called(p, "Delete", r.err)
           /\ Return(p, r.err, NoBytes)
    /\ submitted' = Forget(op[p].vaultID, op[p].docID)
    /\ UNCHANGED <<provider, op, pre, wins, rivals, serial, registry, preRegistry>>

\* MemEDVStore.Get
stGet(p) ==
    /\ pc[p] = "Get"
    /\ LET r == MemGet(op[p].vaultID, op[p].docID)
       IN  /\ Called(p, "Get", r.err)
           /\ Return(p, r.err, r.bytes)
    /\ UNCHANGED <<provider, stores, op, pre, wins, rivals, serial, submitted, registry,
                   preRegistry>>

\* an UpsertBulk that takes the nil slice for an empty one
UpsertBulkNilIsEmpty(p) ==
    \E vaultID \in DOMAIN stores, documents \in Batches :
        LET request == [NoOp EXCEPT !.name = "UpsertBulk", !.vaultID = vaultID,
                                    !.documents = documents]
        IN  IF documents.items = <<>>
            THEN Begin(p, request, "done", ErrNil)
            ELSE Begin(p, request, "ub_Put", ErrNil)

\* MemEDVStore.UpsertBulk up to its loop
UpsertBulk(p) ==
    \E vaultID \in DOMAIN stores, documents \in Batches :
        LET request == [NoOp EXCEPT !.name = "UpsertBulk", !.vaultID = vaultID,
                                    !.documents = documents]
        IN  IF documents.isNil
            THEN Begin(p, request, "done", ErrDocumentsNil)
            ELSE IF documents.items = <<>>
            THEN Begin(p, request, "done", ErrNil)
            ELSE Begin(p, request, "ub_Put", ErrNil)

\* MemEDVStore.UpsertBulk: one turn of the loop, m.Put(document)
ubPut(p) ==
    /\ pc[p] = "ub_Put"
    /\ LET i == Len(calls[p]) + 1
           r == MemPut(op[p].vaultID, op[p].documents.items[i])
       IN  /\ stores' = r.stores
           /\ Called(p, "Put", r.err)
           /\ IF r.err # ErrNil
              THEN Return(p, r.err, NoBytes)
              ELSE IF i = Len(op[p].documents.items)
              THEN Return(p, ErrNil, NoBytes)
              ELSE Goto(p, "ub_Put")
    /\ submitted' = Forget(op[p].vaultID, op[p].documents.items[Len(calls[p]) + 1].id)
    /\ UNCHANGED <<provider, op, pre, wins, rivals, serial, registry, preRegistry>>

----------------------------------------------------------------------------
(* The vault registry: StoreDataVaultConfiguration and                      *)
(* RetrieveDataVaultConfiguration on a MemEDVStore.                         *)

\* what a configuration holds besides its reference id
ConfigPayloads == {"c1", "c2"}

NoEntry == [config |-> NoConfig, vaultID |-> ""]
NoEntryBytes == [kind |-> "", text |-> "", entry |-> NoEntry]

\* []byte(vaultID)
TextBytes(str) == [kind |-> "text", text |-> str, entry |-> NoEntry]
\* json.Marshal(configEntry)
MarshalEntry(entry) == [kind |-> "json", text |-> "", entry |-> entry]

\* fmt.Sprintf("ref:%s", referenceID)
RefKey(referenceID) == "ref:" \o referenceID
\* the configuration entry is kept under the vault id itself
VaultKey(vaultID) == vaultID

\* m.coreStore.Get(k)
CoreGet(k) ==
    IF k \in DOMAIN registry
    THEN [err |-> ErrNil, bytes |-> registry[k]]
    ELSE [err |-> ErrValueNotFound, bytes |-> NoEntryBytes]

\* m.coreStore.Put(k, v)
CorePut(k, v) ==
    [x \in DOMAIN registry \cup {k} |-> IF x = k THEN v ELSE registry[x]]

\* a check that only reports the errors of Get
checkDuplicateReferenceIDGetOnly(referenceID) ==
    LET e == CoreGet(RefKey(referenceID)).err
    IN  IF e # ErrNil /\ ~ErrorsIs(e, ErrValueNotFound) THEN e ELSE ErrNil

checkDuplicateReferenceID(referenceID) ==
    LET e == CoreGet(RefKey(referenceID)).err
    IN  IF e = ErrNil THEN ErrDuplicateVault
        ELSE IF ~ErrorsIs(e, ErrValueNotFound) THEN e
        ELSE ErrNil

\* a caller stores the configuration of a vault
StoreDataVaultConfiguration(p) ==
    \E referenceID \in VaultIDs, payload \in ConfigPayloads, vaultID \in VaultIDs :
        Begin(p, [NoOp EXCEPT !.name = "StoreDataVaultConfiguration",
                              !.config = [referenceID |-> referenceID,
                                          payload |-> payload],
                              !.vaultID = vaultID],
              "sdvc_checkDuplicateReferenceID", ErrNil)

\* StoreDataVaultConfiguration: m.checkDuplicateReferenceID(config.ReferenceID)
sdvcCheckDuplicateReferenceID(p) ==
    /\ pc[p] = "sdvc_checkDuplicateReferenceID"
    /\ LET e == checkDuplicateReferenceID(op[p].config.referenceID)
       IN  /\ Called(p, "Get", CoreGet(RefKey(op[p].config.referenceID)).err)
           /\ IF e # ErrNil
              THEN Return(p, Errorf("CheckDuplicateRefIDFailure", e), NoBytes)
              ELSE Goto(p, "sdvc_PutPointer")
    /\ UNCHANGED <<provider, stores, op, pre, wins, rivals, serial, submitted, registry, preRegistry>>

\* StoreDataVaultConfiguration: m.coreStore.Put("ref:" + referenceID, []byte(vaultID))
sdvcPutPointer(p) ==
    /\ pc[p] = "sdvc_PutPointer"
    /\ registry' = CorePut(RefKey(op[p].config.referenceID), TextBytes(op[p].vaultID))
    /\ Called(p, "Put", ErrNil)
    /\ Goto(p, "sdvc_PutConfig")
    /\ UNCHANGED <<provider, stores, op, pre, wins, rivals, serial, submitted, preRegistry>>

\* StoreDataVaultConfiguration: m.coreStore.Put(vaultID, configBytes)
sdvcPutConfig(p) ==
    /\ pc[p] = "sdvc_PutConfig"
    /\ LET configEntry == [config |-> op[p].config, vaultID |-> op[p].vaultID]
       IN  registry' = CorePut(VaultKey(op[p].vaultID), MarshalEntry(configEntry))
    /\ Called(p, "Put", ErrNil)
    /\ Return(p, ErrNil, NoBytes)
    /\ UNCHANGED <<provider, stores, op, pre, wins, rivals, serial, submitted, preRegistry>>

ErrSyntax == <<"SyntaxError">>

\* json.Unmarshal(configEntryBytes, &configEntry): the bytes of a vault id are
\* not a JSON text
UnmarshalEntry(bytes) ==
    IF bytes.kind = "json"
    THEN [err |-> ErrNil, entry |-> bytes.entry]
    ELSE [err |-> ErrSyntax, entry |-> NoEntry]

\* the keys callers look configurations up by: vault ids, and the strings that
\* are the keys of pointers
RetrieveKeys == VaultIDs \cup {RefKey(referenceID) : referenceID \in VaultIDs}

\* a caller retrieves the configuration of a vault
RetrieveDataVaultConfiguration(p) ==
    \E vaultID \in RetrieveKeys :
        Begin(p, [NoOp EXCEPT !.name = "RetrieveDataVaultConfiguration", !.vaultID = vaultID],
              "rdvc_Get", ErrNil)

\* RetrieveDataVaultConfiguration: m.coreStore.Get(vaultID), then json.Unmarshal
rdvcGet(p) ==
    /\ pc[p] = "rdvc_Get"
    /\ LET r == CoreGet(op[p].vaultID)
           u == UnmarshalEntry(r.bytes)
       IN  /\ Called(p, "Get", r.err)
           /\ IF r.err # ErrNil
              THEN Return(p, ErrVaultNotFound, NoConfig)
              ELSE IF u.err # ErrNil
              THEN Return(p, u.err, NoConfig)
              ELSE Return(p, ErrNil, u.entry.config)
    /\ UNCHANGED <<provider, stores, op, pre, wins, rivals, serial, submitted, registry,
                   preRegistry>>

----------------------------------------------------------------------------
(* Specifications *)

InitRequests ==
    /\ pc = [p \in Procs |-> "idle"]
    /\ op = [p \in Procs |-> NoOp]
    /\ err = [p \in Procs |-> ErrNil]
    /\ out = [p \in Procs |-> NoBytes]
    /\ calls = [p \in Procs |-> <<>>]
    /\ rivals = [p \in Procs |-> {}]

InitStores ==
    /\ stores = [n \in {} |-> EmptyStore]
    /\ pre = [n \in {} |-> EmptyStore]
    /\ wins = [v \in VaultIDs |-> 0]
    /\ submitted = [x \in {} |-> <<>>]
    /\ registry = [k \in {} |-> NoEntryBytes]
    /\ preRegistry = [k \in {} |-> NoEntryBytes]

\* requests served concurrently over the in-memory provider
Init ==
    /\ provider = "mem"
    /\ serial = FALSE
    /\ InitStores
    /\ InitRequests

\* requests served one at a time over the in-memory provider
InitSerial ==
    /\ provider = "mem"
    /\ serial = TRUE
    /\ InitStores
    /\ InitRequests

\* requests served one at a time over any provider
InitAnyProvider ==
    /\ provider \in ProviderKinds
    /\ serial = TRUE
    /\ InitStores
    /\ InitRequests

Next ==
    \E p \in Procs :
        \/ createDataVaultHandler(p)
        \/ cdvCreateStore(p)
        \/ cdvOpenStore(p)
        \/ cdvCreateEDVIndex(p)
        \/ createDocumentHandler(p)
        \/ cdOpenStore(p)
        \/ cdGet(p)
        \/ cdPut(p)
        \/ readDocumentHandler(p)
        \/ rdOpenStore(p)
        \/ rdGet(p)
        \/ Respond(p)

\* the requests of the vault registry
NextRegistry ==
    \E p \in Procs :
        \/ StoreDataVaultConfiguration(p)
        \/ sdvcCheckDuplicateReferenceID(p)
        \/ sdvcPutPointer(p)
        \/ sdvcPutConfig(p)
        \/ RetrieveDataVaultConfiguration(p)
        \/ rdvcGet(p)
        \/ Respond(p)

\* all four requests of the vault collection
NextQuery ==
    \/ Next
    \/ \E p \in Procs :
        \/ queryVaultHandler(p)
        \/ qvOpenStore(p)
        \/ qvQuery(p)

\* the requests of the vault collection and the calls on store handles
NextStore ==
    \/ Next
    \/ \E p \in Procs :
        \/ beginPut(p)
        \/ stPut(p)
        \/ beginUpdate(p)
        \/ stUpdate(p)
        \/ beginDelete(p)
        \/ stDelete(p)
        \/ beginGet(p)
        \/ stGet(p)
        \/ UpsertBulk(p)
        \/ ubPut(p)

Spec == Init /\ [][Next]_vars
SpecStore == InitSerial /\ [][NextStore]_vars
SpecQuery == InitAnyProvider /\ [][NextQuery]_vars
SpecRegistry == Init /\ [][NextRegistry]_vars
SpecRegistrySerial == InitSerial /\ [][NextRegistry]_vars
SpecSerial == InitSerial /\ [][Next]_vars
SpecAnyProvider == InitAnyProvider /\ [][Next]_vars

----------------------------------------------------------------------------
(* Properties *)

Done(p, name) == pc[p] = "done" /\ op[p].name = name /\ calls[p] # <<>>
Running(name, vaultID) ==
    \E p \in Procs : Active(p) /\ op[p].name = name /\ op[p].vaultID = vaultID
Holds(s, vaultID, id) == vaultID \in DOMAIN s /\ id \in DOMAIN s[vaultID]

\* C1: among the createDataVault calls with one referenceId, run one after another
\* or interleaved over the in-memory provider, exactly one returns nil and every
\* other one returns DuplicateVault.
C1_ExactlyOneVaultPerReferenceID ==
    \A v \in VaultIDs :
        /\ wins[v] <= 1
        /\ \A p \in Procs :
              Done(p, "createDataVault") /\ op[p].vaultID = v
                  => err[p] \in {ErrNil, ErrDuplicateVault}
        /\ v \notin DOMAIN stores => wins[v] = 0
        /\ (v \in DOMAIN stores /\ ~Running("createDataVault", v)) => wins[v] = 1

C1_Witness ==
    \E p, q \in Procs :
        /\ Done(p, "createDataVault") /\ Done(q, "createDataVault")
        /\ op[p].vaultID = op[q].vaultID
        /\ err[p] = ErrNil /\ err[q] = ErrDuplicateVault
        /\ wins[op[p].vaultID] = 1

\* C2: two concurrent createDocument calls with the same document id on the same
\* vault never both return nil: when one returns nil the other returns
\* DuplicateDocument and the stored document is the winner's.
C2_ExactlyOneDocumentWinner ==
    \A p, q \in Procs :
        (/\ Done(p, "createDocument") /\ Done(q, "createDocument")
         /\ q \in rivals[p]
         /\ err[p] = ErrNil)
            => /\ err[q] = ErrDuplicateDocument
               /\ stores[op[p].vaultID][op[p].document.id] = JSONMarshal(op[p].document)

\* C3: one request at a time, createDocument with an id already in the vault
\* returns DuplicateDocument and changes no store; with an id absent from the vault
\* and present in another vault it returns nil, stores the document and leaves the
\* other vaults alone.
C3_NoOverwrite ==
    \A p \in Procs :
        Done(p, "createDocument") =>
            LET v == op[p].vaultID
                id == op[p].document.id
            IN  /\ Holds(pre, v, id) => err[p] = ErrDuplicateDocument /\ stores = pre
                /\ (/\ v \in DOMAIN pre
                    /\ ~Holds(pre, v, id)
                    /\ \E w \in VaultIDs \ {v} : Holds(pre, w, id))
                       => /\ err[p] = ErrNil
                          /\ stores[v][id] = JSONMarshal(op[p].document)
                          /\ \A w \in VaultIDs \ {v} : w \in DOMAIN pre => stores[w] = pre[w]

C3_Witness ==
    \E p \in Procs :
        /\ Done(p, "createDocument")
        /\ err[p] = ErrDuplicateDocument
        /\ stores[op[p].vaultID][op[p].document.id] # JSONMarshal(op[p].document)
        /\ \A w \in VaultIDs : Holds(stores, w, op[p].document.id)

StoredBy(p) == [config |-> op[p].config, vaultID |-> op[p].vaultID]

\* C4: two concurrent StoreDataVaultConfiguration calls with the same referenceId
\* never both return nil: when one returns nil the other fails with DuplicateVault.
C4_ConcurrentDuplicateDetected ==
    \A p, q \in Procs :
        (/\ Done(p, "StoreDataVaultConfiguration")
         /\ Done(q, "StoreDataVaultConfiguration")
         /\ q \in rivals[p]
         /\ err[p] = ErrNil)
            => ErrorsIs(err[q], ErrDuplicateVault)

\* C5: one request at a time, StoreDataVaultConfiguration(config, vaultID) fails
\* with DuplicateVault and writes nothing when the pointer of config.referenceId
\* exists; otherwise it returns nil and has written the pointer referenceId ->
\* vaultID and the configuration entry under vaultID, and no other key.
C5_DuplicateReferenceID ==
    \A p \in Procs :
        Done(p, "StoreDataVaultConfiguration") =>
            LET ref == RefKey(op[p].config.referenceID)
                key == VaultKey(op[p].vaultID)
            IN  IF ref \in DOMAIN preRegistry
                THEN ErrorsIs(err[p], ErrDuplicateVault) /\ registry = preRegistry
                ELSE /\ err[p] = ErrNil
                     /\ registry[ref] = TextBytes(op[p].vaultID)
                     /\ registry[key] = MarshalEntry(StoredBy(p))
                     /\ DOMAIN registry = DOMAIN preRegistry \cup {ref, key}
                     /\ \A k \in DOMAIN preRegistry \ {key} : registry[k] = preRegistry[k]

C5_Witness ==
    \E p \in Procs :
        /\ Done(p, "StoreDataVaultConfiguration")
        /\ ErrorsIs(err[p], ErrDuplicateVault)
        /\ registry[RefKey(op[p].config.referenceID)] # TextBytes(op[p].vaultID)
        /\ VaultKey(op[p].vaultID) \notin DOMAIN registry

ReadBack(p) ==
    /\ Done(p, "readDocument")
    /\ err[p] = ErrNil
    /\ <<op[p].vaultID, op[p].docID>> \in DOMAIN submitted

\* C6 as the specification states it: readDocument after a successful
\* createDocument returns the bytes that were submitted.
C6_ReadReturnsSubmittedBytes ==
    \A p \in Procs :
        ReadBack(p) => out[p] = submitted[<<op[p].vaultID, op[p].docID>>]

\* C6, amended: readDocument after a successful createDocument returns the JSON
\* serialization of the document decoded from the submitted body; these are the
\* submitted bytes when the body was already in that form.
C6_ReadReturnsMarshalledDocument ==
    \A p \in Procs :
        ReadBack(p) =>
            LET body == submitted[<<op[p].vaultID, op[p].docID>>]
            IN  /\ out[p] = JSONMarshal(JSONDecode(body).document)
                /\ (\E id \in DocIDs, jwe \in Payloads : body = CompactBody(id, jwe))
                      => out[p] = body

C6_Witness ==
    \E p \in Procs :
        /\ ReadBack(p)
        /\ submitted[<<op[p].vaultID, op[p].docID>>] \notin CompactBodies
        /\ \E v \in VaultIDs :
              /\ <<v, op[p].docID>> \in DOMAIN submitted
              /\ submitted[<<v, op[p].docID>>] \in CompactBodies

\* C7: one request at a time, readDocument on a vault id without a store returns
\* VaultNotFound, on an existing vault without the document id DocumentNotFound,
\* and no readDocument changes a store.
C7_ReadNotFound ==
    \A p \in Procs :
        Done(p, "readDocument") =>
            LET v == op[p].vaultID
            IN  /\ v \notin DOMAIN pre => err[p] = ErrVaultNotFound /\ out[p] = NoBytes
                /\ (v \in DOMAIN pre /\ op[p].docID \notin DOMAIN pre[v])
                       => err[p] = ErrDocumentNotFound /\ out[p] = NoBytes
                /\ stores = pre

C7_Witness ==
    \E p \in Procs :
        /\ Done(p, "readDocument")
        /\ err[p] = ErrDocumentNotFound
        /\ stores[op[p].vaultID] # EmptyStore
        /\ \E v \in VaultIDs : v \notin DOMAIN stores

\* C8: createDataVault returns every error of CreateStore other than
\* DuplicateStore unchanged, and DuplicateVault for DuplicateStore.
C8_CreateStoreErrorReturned ==
    \A p \in Procs :
        Done(p, "createDataVault") =>
            LET e == calls[p][1].err
            IN  /\ e = ErrDuplicateStore => err[p] = ErrDuplicateVault
                /\ (e # ErrNil /\ e # ErrDuplicateStore) => err[p] = e

\* what createDocument has to return, from the checks in their order
C9_Expected(p) ==
    LET t == calls[p]
        v == op[p].vaultID
        id == op[p].document.id
        decoded == Base58Decode(id)
    IN  IF t[1].err = ErrOpenStoreFailed THEN ErrOpenStoreFailed
        ELSE IF v \notin DOMAIN pre THEN ErrVaultNotFound
        ELSE IF Len(decoded) = 0 THEN ErrNotBase58Encoded
        ELSE IF Len(decoded) # IdByteLen THEN ErrNot128BitValue
        ELSE IF t[2].err = ErrGetFailed THEN ErrGetFailed
        ELSE IF id \in DOMAIN pre[v] THEN ErrDuplicateDocument
        ELSE t[3].err

\* C9: createDocument returns the first failure of: store absent (VaultNotFound),
\* id decodes to no bytes (NotBase58Encoded), decoded length not 16
\* (Not128BitValue), id present (DuplicateDocument), another Get error (that
\* error); it calls Put only when all of these pass, and a failing call changes no
\* store.
C9_ChecksInOrder ==
    \A p \in Procs :
        Done(p, "createDocument") =>
            /\ calls[p][1].call = "OpenStore"
            /\ err[p] = C9_Expected(p)
            /\ (\E i \in 1..Len(calls[p]) : calls[p][i].call = "Put")
                  <=> /\ Len(calls[p]) = 3
                      /\ calls[p][1].err = ErrNil
                      /\ checkIfBase58Encoded128BitValue(op[p].document.id) = ErrNil
                      /\ calls[p][2].call = "Get" /\ calls[p][2].err = ErrValueNotFound
            /\ err[p] # ErrNil => stores = pre

C9_Witness ==
    \E p \in Procs :
        /\ Done(p, "createDocument")
        /\ op[p].vaultID \notin DOMAIN pre
        /\ Len(Base58Decode(op[p].document.id)) = 0
        /\ err[p] = ErrVaultNotFound

LastCall(p) == calls[p][Len(calls[p])]

\* C10: when CreateEDVIndex reports IndexingNotSupported, createDataVault returns
\* nil and the vault exists; when it reports another error, createDataVault returns
\* that error; over the in-memory provider createDataVault of a fresh id returns nil.
C10_IndexingNotSupportedIsNotFatal ==
    \A p \in Procs :
        Done(p, "createDataVault") =>
            /\ LastCall(p).call = "CreateEDVIndex" =>
                  /\ LastCall(p).err = ErrIndexingNotSupported
                        => err[p] = ErrNil /\ op[p].vaultID \in DOMAIN stores
                  /\ LastCall(p).err \notin {ErrNil, ErrIndexingNotSupported}
                        => err[p] = LastCall(p).err
            /\ (provider = "mem" /\ op[p].vaultID \notin DOMAIN pre)
                  => err[p] = ErrNil /\ op[p].vaultID \in DOMAIN stores

C10_Witness ==
    \E p \in Procs :
        /\ Done(p, "createDataVault")
        /\ provider = "other"
        /\ LastCall(p).call = "CreateEDVIndex"
        /\ LastCall(p).err = ErrIndexingNotSupported
        /\ err[p] = ErrNil

Pointers(reg) == {referenceID \in VaultIDs : RefKey(referenceID) \in DOMAIN reg}

\* C11: under any sequence of StoreDataVaultConfiguration calls, no two distinct
\* referenceIds point to the same vaultId, a pointer once written never changes,
\* and a configuration entry stored under a vaultId is never replaced.
C11_RegistryInjectiveImmutable ==
    /\ \A r1, r2 \in Pointers(registry) :
          r1 # r2 => registry[RefKey(r1)] # registry[RefKey(r2)]
    /\ \A p \in Procs :
          Done(p, "StoreDataVaultConfiguration") =>
              \A k \in DOMAIN preRegistry : registry[k] = preRegistry[k]

\* C12: after a successful StoreDataVaultConfiguration(config, vaultId),
\* RetrieveDataVaultConfiguration(vaultId) returns config; on a key that holds no
\* configuration entry it returns VaultNotFound.
C12_RetrieveStoredOrNotFound ==
    \A p \in Procs :
        Done(p, "RetrieveDataVaultConfiguration") =>
            LET k == op[p].vaultID
            IN  IF k \in DOMAIN registry /\ registry[k].kind = "json"
                THEN err[p] = ErrNil /\ out[p] = registry[k].entry.config
                ELSE err[p] = ErrVaultNotFound

Finished(p, name) == pc[p] = "done" /\ op[p].name = name
BatchIDs(items) == {items[i].id : i \in 1..Len(items)}
\* the last document of the batch that carries this id
LastWith(items, id) ==
    items[CHOOSE i \in 1..Len(items) :
              /\ items[i].id = id
              /\ \A j \in (i + 1)..Len(items) : items[j].id # id]

\* C13: UpsertBulk with the nil slice returns an error and writes nothing; with an
\* empty slice it returns nil and changes no store; with a non-empty slice it
\* calls Put for each document in order, after which each id of the batch holds
\* the last document of the batch with that id and every other id is unchanged.
C13_UpsertBulk ==
    \A p \in Procs :
        Finished(p, "UpsertBulk") =>
            LET documents == op[p].documents
                items == documents.items
                v == op[p].vaultID
            IN  /\ documents.isNil =>
                      err[p] # ErrNil /\ calls[p] = <<>> /\ stores = pre
                /\ (~documents.isNil /\ items = <<>>) =>
                      err[p] = ErrNil /\ calls[p] = <<>> /\ stores = pre
                /\ (~documents.isNil /\ items # <<>>) =>
                      /\ err[p] = ErrNil
                      /\ Len(calls[p]) = Len(items)
                      /\ \A i \in 1..Len(calls[p]) : calls[p][i].call = "Put"
                      /\ \A id \in BatchIDs(items) :
                            stores[v][id] = JSONMarshal(LastWith(items, id))
                      /\ DOMAIN stores[v] = DOMAIN pre[v] \cup BatchIDs(items)
                      /\ \A id \in DOMAIN pre[v] \ BatchIDs(items) :
                            stores[v][id] = pre[v][id]
                      /\ \A w \in DOMAIN stores \ {v} : stores[w] = pre[w]

C13_Witness ==
    \E p \in Procs :
        /\ Finished(p, "UpsertBulk")
        /\ Len(op[p].documents.items) = 2
        /\ op[p].documents.items[1].id = op[p].documents.items[2].id
        /\ op[p].documents.items[1].jwe # op[p].documents.items[2].jwe
        /\ Holds(pre, op[p].vaultID, op[p].documents.items[1].id)
        /\ stores[op[p].vaultID] # pre[op[p].vaultID]
        /\ DOMAIN pre[op[p].vaultID] \ BatchIDs(op[p].documents.items) # {}

\* C14: Query on the in-memory store always fails with QueryingNotSupported and
\* returns no result; queryVault returns VaultNotFound when the vault has no
\* store, and for an existing vault exactly what Query returned; queryVault changes
\* no store.
C14_QueryVault ==
    \A p \in Procs :
        Done(p, "queryVault") =>
            LET v == op[p].vaultID
            IN  /\ calls[p][1].call = "OpenStore"
                /\ calls[p][1].err = ErrStoreNotFound =>
                      err[p] = ErrVaultNotFound /\ out[p] = NoIDs /\ Len(calls[p]) = 1
                /\ (provider = "mem" /\ v \notin DOMAIN pre) => err[p] = ErrVaultNotFound
                /\ calls[p][1].err = ErrNil =>
                      /\ LastCall(p).call = "Query"
                      /\ err[p] = LastCall(p).err
                      /\ out[p] = LastCall(p).ids
                /\ (provider = "mem" /\ v \in DOMAIN pre) =>
                      err[p] = ErrQueryingNotSupported /\ out[p] = NoIDs
                /\ stores = pre

C14_Witness ==
    \E p \in Procs :
        /\ Done(p, "queryVault")
        /\ provider = "mem"
        /\ err[p] = ErrQueryingNotSupported
        /\ stores[op[p].vaultID] # EmptyStore
        /\ \E v \in VaultIDs : v \notin DOMAIN stores

Conflicts == {ErrDuplicateVault, ErrDuplicateDocument}
NotFounds == {ErrVaultNotFound, ErrDocumentNotFound}
Validations == {ErrBlankReferenceID, ErrSyntax, ErrNotBase58Encoded, ErrNot128BitValue}
Handlers == {"createDataVault", "createDocument", "readDocument", "queryVault"}

\* C15: every handler answers a DuplicateVault or DuplicateDocument outcome with
\* 409, a VaultNotFound or DocumentNotFound outcome with 404 and a validation
\* failure with 400.
C15_DistinctStatuses ==
    \A p \in Procs :
        (pc[p] = "done" /\ op[p].name \in Handlers) =>
            /\ err[p] \in Conflicts => WriteHeader(p) = StatusConflict
            /\ err[p] \in NotFounds => WriteHeader(p) = StatusNotFound
            /\ err[p] \in Validations => WriteHeader(p) = StatusBadRequest

\* C16: a createDataVault that returns an error other than DuplicateVault leaves
\* no store behind: an id that had no store before the call has none after it.
C16_NoPartialVault ==
    \A p \in Procs :
        (Done(p, "createDataVault") /\ err[p] \notin {ErrNil, ErrDuplicateVault}) =>
            (op[p].vaultID \notin DOMAIN pre => op[p].vaultID \notin DOMAIN stores)

\* C17: in every state of the registry, between the two writes of
\* StoreDataVaultConfiguration as well, a configuration entry under a vaultId
\* exists only if the pointer of the configuration's referenceId exists and
\* holds that vaultId.
C17_PointerBeforeConfiguration ==
    \A vaultID \in VaultIDs :
        (VaultKey(vaultID) \in DOMAIN registry /\ registry[VaultKey(vaultID)].kind = "json") =>
            LET ref == RefKey(registry[VaultKey(vaultID)].entry.config.referenceID)
            IN  ref \in DOMAIN registry /\ registry[ref] = TextBytes(vaultID)

\* C18: a document id in a vault goes absent -> present -> absent: Delete of a
\* present id leaves it absent, on an absent id Get returns ValueNotFound,
\* readDocument returns DocumentNotFound and createDocument succeeds; Put and
\* Update on a present id keep it present with the new content.
C18_DocumentLifecycle ==
    \A p \in Procs :
        LET v == op[p].vaultID
        IN  /\ Finished(p, "Delete") =>
                  /\ err[p] = ErrNil
                  /\ DOMAIN stores[v] = DOMAIN pre[v] \ {op[p].docID}
                  /\ \A k \in DOMAIN stores[v] : stores[v][k] = pre[v][k]
            /\ (Finished(p, "Get") /\ ~Holds(pre, v, op[p].docID)) =>
                  err[p] = ErrValueNotFound
            /\ (Done(p, "readDocument") /\ v \in DOMAIN pre /\ ~Holds(pre, v, op[p].docID)) =>
                  err[p] = ErrDocumentNotFound
            /\ (/\ Done(p, "createDocument")
                /\ v \in DOMAIN pre
                /\ op[p].document.id \in ValidDocIDs
                /\ ~Holds(pre, v, op[p].document.id)) =>
                  /\ err[p] = ErrNil
                  /\ stores[v][op[p].document.id] = JSONMarshal(op[p].document)
            /\ ((Finished(p, "Put") \/ Finished(p, "Update")) /\ Holds(pre, v, op[p].document.id)) =>
                  /\ err[p] = ErrNil
                  /\ stores[v][op[p].document.id] = JSONMarshal(op[p].document)
                  /\ DOMAIN stores[v] = DOMAIN pre[v]

C18_Witness ==
    \E p \in Procs :
        /\ Finished(p, "Delete")
        /\ Holds(pre, op[p].vaultID, op[p].docID)
        /\ ~Holds(stores, op[p].vaultID, op[p].docID)
        /\ stores[op[p].vaultID] # EmptyStore

DocumentOps == {"createDocument", "Put", "Update", "UpsertBulk", "Delete"}

\* C19: a createDocument, Put, Update, UpsertBulk or Delete addressed to one
\* vault, whether it succeeds or fails, leaves the contents of every other vault
\* unchanged, and readDocument on a vault returns only what that vault holds.
C19_VaultsIsolated ==
    \A p \in Procs :
        LET v == op[p].vaultID
        IN  /\ (pc[p] # "idle" /\ op[p].name \in DocumentOps) =>
                  /\ DOMAIN stores = DOMAIN pre
                  /\ \A w \in DOMAIN pre \ {v} : stores[w] = pre[w]
            /\ Done(p, "readDocument") =>
                  IF Holds(stores, v, op[p].docID)
                  THEN err[p] = ErrNil /\ out[p] = stores[v][op[p].docID]
                  ELSE err[p] # ErrNil /\ out[p] = NoBytes

C19_Witness ==
    \E p \in Procs, w \in VaultIDs :
        /\ pc[p] = "done" /\ op[p].name \in DocumentOps
        /\ w # op[p].vaultID
        /\ Holds(stores, w, op[p].document.id)
        /\ Holds(stores, op[p].vaultID, op[p].document.id)
        /\ stores[op[p].vaultID] # pre[op[p].vaultID]
        /\ stores[w][op[p].document.id] # stores[op[p].vaultID][op[p].document.id]

\* C20: once createDataVault(id) has returned nil the store of id exists in every
\* later state, no later createDocument, readDocument or queryVault on id returns
\* VaultNotFound, and a createDataVault that fails with DuplicateVault changes no
\* store.
C20_VaultsPersist ==
    /\ \A v \in VaultIDs : wins[v] > 0 => v \in DOMAIN stores
    /\ \A p \in Procs :
          /\ (/\ pc[p] = "done"
              /\ op[p].name \in {"createDocument", "readDocument", "queryVault"}
              /\ op[p].vaultID \in VaultIDs
              /\ wins[op[p].vaultID] > 0) => err[p] # ErrVaultNotFound
          /\ (Done(p, "createDataVault") /\ err[p] = ErrDuplicateVault) =>
                op[p].vaultID \in DOMAIN pre /\ stores = pre

C20_Witness ==
    \E p \in Procs :
        /\ Done(p, "createDataVault")
        /\ err[p] = ErrDuplicateVault
        /\ wins[op[p].vaultID] > 0
        /\ stores[op[p].vaultID] # EmptyStore

\* C21: a create-vault request with a blank referenceId is rejected as a
\* validation failure before any backend call: no store is created and the set
\* of vaults is unchanged.
C21_BlankReferenceIDRejected ==
    \A p \in Procs :
        (pc[p] # "idle" /\ op[p].name = "createDataVault" /\ op[p].vaultID = "") =>
            /\ pc[p] = "done"
            /\ err[p] = ErrBlankReferenceID
            /\ WriteHeader(p) = StatusBadRequest
            /\ calls[p] = <<>>
            /\ stores = pre
            /\ "" \notin DOMAIN stores

C21_Witness ==
    \E p \in Procs :
        /\ Finished(p, "createDataVault")
        /\ op[p].vaultID = ""
        /\ err[p] = ErrBlankReferenceID
        /\ DOMAIN stores # {}

\* the stores s after document is put into the store of vault v
Upserted(s, v, document) ==
    [s EXCEPT ![v] = [k \in DOMAIN s[v] \cup {document.id} |->
                         IF k = document.id THEN JSONMarshal(document) ELSE s[v][k]]]

\* C22: on the in-memory store Update(doc) has the effect and the result of
\* Put(doc) in every store state: both return nil and leave the id with the
\* new content, whether the id was present or absent, and change nothing else.
C22_UpdateIsPut ==
    \A p \in Procs :
        (Finished(p, "Update") \/ Finished(p, "Put")) =>
            /\ err[p] = ErrNil
            /\ stores = Upserted(pre, op[p].vaultID, op[p].document)
            /\ calls[p] = <<[call |-> "Put", err |-> ErrNil]>>

C22_Witness ==
    \E p \in Procs :
        /\ Finished(p, "Update")
        /\ ~Holds(pre, op[p].vaultID, op[p].document.id)
        /\ Holds(stores, op[p].vaultID, op[p].document.id)
        /\ pre[op[p].vaultID] # EmptyStore

====
